---------------------------- MODULE Spec2Model ----------------------------
(***************************************************************************)
(* webpack-manifest-plugin (lib/plugin.js): the manifest assembly pipeline *)
(* run by the emit handler, and the process-wide lock that coordinates the *)
(* notify/release window of concurrently completing builds.                *)
(*                                                                         *)
(* JavaScript strings are modelled as sequences of one-character strings,  *)
(* so that concatenation, split, replace and includes are computed as the  *)
(* code computes them.                                                     *)
(*                                                                         *)
(* Spec:         the compilers of the 'multiple compilation' test, each    *)
(*               rebuilding, under either shape of the host's plugin API   *)
(* SpecFileType: the calls of getFileType                                  *)
(* SpecEmit:     one build of one compiler, over the compilations and the  *)
(*               options the emit handler can be given                     *)
(* SpecPublicPath, SpecGenerate, SpecTransform: the same build under the   *)
(*               options publicPath/map, generate/seed, filter/map/sort    *)
(* SpecCollect:  the same build over every combination of chunk files,     *)
(*               assets and module-asset events                            *)
(* SpecWatch:    two compilers in watch mode, rebuilding                   *)
(* SpecWrite:    two compilers writing one output file                     *)
(* SpecLive:     Spec under a host that goes on with every build           *)
(***************************************************************************)
EXTENDS Integers, Sequences, FiniteSets, TLC

(***************************************************************************)
(* String helpers (String.prototype.*, Array.prototype.pop)                *)
(***************************************************************************)
Last(s) == s[Len(s)]

Front(s) == SubSeq(s, 1, Len(s) - 1)

\* index of the first occurrence of character ch in s, 0 when absent
IndexOf(s, ch) ==
  IF \E i \in 1..Len(s) : s[i] = ch
  THEN CHOOSE i \in 1..Len(s) : s[i] = ch /\ \A j \in 1..(i - 1) : s[j] # ch
  ELSE 0

\* String.prototype.includes
Includes(s, sub) ==
  \E i \in 0..(Len(s) - Len(sub)) : SubSeq(s, i + 1, i + Len(sub)) = sub

\* String.prototype.split on a one-character separator
RECURSIVE SplitOn(_, _)
SplitOn(s, ch) ==
  LET i == IndexOf(s, ch)
  IN IF i = 0 THEN <<s>>
     ELSE <<SubSeq(s, 1, i - 1)>> \o SplitOn(SubSeq(s, i + 1, Len(s)), ch)

\* str.replace(/\\/g, '/')
RECURSIVE ReplaceBackslash(_)
ReplaceBackslash(s) ==
  IF s = <<>> THEN <<>>
  ELSE <<IF s[1] = "\\" THEN "/" ELSE s[1]>> \o ReplaceBackslash(Tail(s))

\* the letters of the model's alphabet that have an upper case form
LowerOf(ch) ==
  CASE ch = "G" -> "g"
    [] ch = "Z" -> "z"
    [] ch = "M" -> "m"
    [] ch = "A" -> "a"
    [] ch = "P" -> "p"
    [] OTHER -> ch

ToLower(s) == [i \in 1..Len(s) |-> LowerOf(s[i])]

\* String(undefined), what `undefined + '.'` concatenates
Undefined == <<"u", "n", "d", "e", "f", "i", "n", "e", "d">>

\* the string literals of the source and of its tests
HotUpdate == <<"h", "o", "t", "-", "u", "p", "d", "a", "t", "e">>
sGz == <<"g", "z">>
sMap == <<"m", "a", "p">>
sJs == <<"j", "s">>
sMain == <<"m", "a", "i", "n">>
sDot == <<".">>

(***************************************************************************)
(* getFileType                                                             *)
(***************************************************************************)
\* opts.transformExtensions.test(ext) with the default /^(gz|map)$/i
TransformExtensionsTest(ext) == ToLower(ext) \in {sGz, sMap}

\* str.replace(/\?.*/, ''): the first '?' and what follows it up to the
\* next line terminator ('.' does not match one) are removed
StripQuery(str) ==
  LET q == IndexOf(str, "?")
      rest == SubSeq(str, q + 1, Len(str))
      nl == IndexOf(rest, "\n")
  IN IF q = 0 THEN str
     ELSE SubSeq(str, 1, q - 1)
            \o (IF nl = 0 THEN <<>> ELSE SubSeq(rest, nl, Len(rest)))

getFileType(str) ==
  LET s == StripQuery(str)
      split == SplitOn(s, ".")
      ext == Last(split)
      split2 == Front(split)
      popped == IF split2 = <<>> THEN Undefined ELSE Last(split2)
  IN IF TransformExtensionsTest(ext) THEN popped \o sDot \o ext ELSE ext


(***************************************************************************)
(* path.dirname / path.basename / path.join as moduleAsset uses them, on   *)
(* relative paths; os is "posix" or "win32" (path.win32 takes both '/' and *)
(* '\' for a separator and joins with '\')                                 *)
(***************************************************************************)
IsSep(ch, os) == ch = "/" \/ (os = "win32" /\ ch = "\\")

Sep(os) == IF os = "win32" THEN "\\" ELSE "/"

\* index of the last separator of p, 0 when it has none
LastSepIndex(p, os) ==
  IF \E i \in 1..Len(p) : IsSep(p[i], os)
  THEN CHOOSE i \in 1..Len(p) :
         IsSep(p[i], os) /\ \A j \in (i + 1)..Len(p) : ~IsSep(p[j], os)
  ELSE 0

RECURSIVE SplitSeps(_, _)
SplitSeps(p, os) ==
  IF \E i \in 1..Len(p) : IsSep(p[i], os)
  THEN LET i == CHOOSE k \in 1..Len(p) :
                  IsSep(p[k], os) /\ \A j \in 1..(k - 1) : ~IsSep(p[j], os)
       IN <<SubSeq(p, 1, i - 1)>> \o SplitSeps(SubSeq(p, i + 1, Len(p)), os)
  ELSE <<p>>

RECURSIVE JoinWith(_, _)
JoinWith(segs, ch) ==
  IF segs = <<>> THEN <<>>
  ELSE IF Len(segs) = 1 THEN segs[1]
  ELSE segs[1] \o <<ch>> \o JoinWith(Tail(segs), ch)

\* path.dirname of a path that does not end with a separator
Dirname(p, os) ==
  LET i == LastSepIndex(p, os)
  IN IF i = 0 THEN <<".">>
     ELSE IF i = 1 THEN <<p[1]>>
     ELSE SubSeq(p, 1, i - 1)

\* path.basename of a path that does not end with a separator
Basename(p, os) == SubSeq(p, LastSepIndex(p, os) + 1, Len(p))

\* path.normalize over the segments: '' and '.' are dropped, '..' pops
RECURSIVE NormalizeSegs(_, _)
NormalizeSegs(segs, acc) ==
  IF segs = <<>> THEN acc
  ELSE LET h == segs[1]
       IN IF h = <<>> \/ h = <<".">> THEN NormalizeSegs(Tail(segs), acc)
          ELSE IF h = <<".", ".">> /\ acc # <<>> /\ Last(acc) # <<".", ".">>
               THEN NormalizeSegs(Tail(segs), Front(acc))
          ELSE NormalizeSegs(Tail(segs), Append(acc, h))

PathJoin(a, b, os) ==
  LET joined == IF b = <<>> THEN a ELSE a \o <<Sep(os)>> \o b
      abs == joined # <<>> /\ IsSep(joined[1], os)
      body == JoinWith(NormalizeSegs(SplitSeps(joined, os), <<>>), Sep(os))
  IN IF abs THEN <<Sep(os)>> \o body
     ELSE IF body = <<>> THEN <<".">> ELSE body

\* moduleAsset(module, file): the registry after moduleAssets[file] = ...
moduleAsset(registry, userRequest, file, os) ==
  LET name == PathJoin(Dirname(file, os), Basename(userRequest, os), os)
  IN [p \in (DOMAIN registry) \cup {file} |->
        IF p = file THEN name ELSE registry[p]]

(***************************************************************************)
(* emit: collection of the file descriptors                                *)
(*   a chunk is [name, files, initial]; name <<>> stands for every falsy   *)
(*   chunk.name (undefined, null, ''); an asset of stats.assets is         *)
(*   [name, chunks], chunks being asset.chunks.length                      *)
(***************************************************************************)
\* ChunkFileName without the chunk's name: every file under its own path
ChunkFileNameAsPath(chunk, path) == path

ChunkFileName(chunk, path) ==
  IF chunk.name # <<>> THEN chunk.name \o sDot \o getFileType(path) ELSE path

ChunkDescriptor(chunk, ci, path) ==
  [path |-> path, chunk |-> ci, name |-> ChunkFileName(chunk, path),
   isInitial |-> chunk.initial, isChunk |-> TRUE, isAsset |-> FALSE,
   isModuleAsset |-> FALSE]

RECURSIVE ChunkScanFrom(_, _)
ChunkScanFrom(chunks, ci) ==
  IF ci > Len(chunks) THEN <<>>
  ELSE [i \in 1..Len(chunks[ci].files) |->
          ChunkDescriptor(chunks[ci], ci, chunks[ci].files[i])]
       \o ChunkScanFrom(chunks, ci + 1)

ChunkScan(chunks) == ChunkScanFrom(chunks, 1)

AssetDescriptors(asset, moduleAssets) ==
  IF asset.name \in DOMAIN moduleAssets /\ moduleAssets[asset.name] # <<>>
  THEN <<[path |-> asset.name, name |-> moduleAssets[asset.name],
          isInitial |-> FALSE, isChunk |-> FALSE, isAsset |-> TRUE,
          isModuleAsset |-> TRUE]>>
  ELSE IF asset.chunks > 0 THEN <<>>
  ELSE <<[path |-> asset.name, name |-> asset.name,
          isInitial |-> FALSE, isChunk |-> FALSE, isAsset |-> TRUE,
          isModuleAsset |-> FALSE]>>

RECURSIVE AssetScan(_, _)
AssetScan(assets, moduleAssets) ==
  IF assets = <<>> THEN <<>>
  ELSE AssetDescriptors(assets[1], moduleAssets)
         \o AssetScan(Tail(assets), moduleAssets)

IsHotUpdate(file) == Includes(file.path, HotUpdate)

\* DropHotUpdates without the filter
KeepHotUpdates(files) == files

\* files.filter(file => !file.path.includes('hot-update'))
DropHotUpdates(files) == SelectSeq(files, LAMBDA f : ~IsHotUpdate(f))

Collect(compilation, moduleAssets) ==
  DropHotUpdates(ChunkScan(compilation.chunks)
                   \o AssetScan(compilation.assets, moduleAssets))

(***************************************************************************)
(* emit: base path, public path, separators                                *)
(***************************************************************************)
\* ApplyBasePath with the prefix put on file.path
ApplyBasePathToPath(files, basePath) ==
  IF basePath # <<>>
  THEN [i \in 1..Len(files) |-> [files[i] EXCEPT !.path = basePath \o @]]
  ELSE files

ApplyBasePath(files, basePath) ==
  IF basePath # <<>>
  THEN [i \in 1..Len(files) |-> [files[i] EXCEPT !.name = basePath \o @]]
  ELSE files

\* ApplyPublicPath with the prefix put on file.name
ApplyPublicPathToName(files, publicPath) ==
  IF publicPath # <<>>
  THEN [i \in 1..Len(files) |-> [files[i] EXCEPT !.name = publicPath \o @]]
  ELSE files

ApplyPublicPath(files, publicPath) ==
  IF publicPath # <<>>
  THEN [i \in 1..Len(files) |-> [files[i] EXCEPT !.path = publicPath \o @]]
  ELSE files

NormalizeSeparators(files) ==
  [i \in 1..Len(files) |->
     [files[i] EXCEPT !.name = ReplaceBackslash(@),
                      !.path = ReplaceBackslash(@)]]

(***************************************************************************)
(* emit: the user operations filter, map, sort.  A user function is named  *)
(* by an identifier; "none" is the option left at null.                    *)
(***************************************************************************)
\* opts.filter, called as filter(file)
FilterFn(id, file) ==
  CASE id = "isInitial" -> file.isInitial          \* file => file.isInitial
    [] id = "isChunk" -> file.isChunk              \* file => file.isChunk
    [] OTHER -> TRUE

ApplyFilter(files, id) ==
  IF id # "none" THEN SelectSeq(files, LAMBDA f : FilterFn(id, f)) ELSE files

\* opts.map, called as map(file)
MapFn(id, file) ==
  CASE id = "nameIsPath" -> [file EXCEPT !.name = file.path]
    [] id = "oneName" -> [file EXCEPT !.name = <<"x">>]
    [] id = "tagPath" -> [file EXCEPT !.path = @ \o <<"?", "v">>]
    [] id = "markInitial" -> [file EXCEPT !.isInitial = TRUE]
    [] OTHER -> file

ApplyMap(files, id) ==
  IF id # "none" THEN [i \in 1..Len(files) |-> MapFn(id, files[i])] ELSE files

\* UTF-16 code unit order of the characters the model uses
CodeOrder ==
  <<"\n", "-", ".", "/", "0", "1", "2", "3", ":", "?", "A", "G", "M", "P", "Z",
    "\\", "a", "b", "c", "d", "e", "f", "g", "h", "i", "j", "l", "m", "n", "o",
    "p", "s", "t", "u", "v", "x", "z">>

CharCode(ch) == CHOOSE i \in 1..Len(CodeOrder) : CodeOrder[i] = ch

\* a < b on JavaScript strings
RECURSIVE StrLess(_, _)
StrLess(a, b) ==
  IF b = <<>> THEN FALSE
  ELSE IF a = <<>> THEN TRUE
  ELSE IF a[1] = b[1] THEN StrLess(Tail(a), Tail(b))
  ELSE CharCode(a[1]) < CharCode(b[1])

\* opts.sort, called as sort(a, b)
SortFn(id, a, b) ==
  CASE id = "byName" ->
         IF StrLess(a.name, b.name) THEN -1
         ELSE IF StrLess(b.name, a.name) THEN 1 ELSE 0
    [] id = "byPathDesc" ->
         IF StrLess(b.path, a.path) THEN -1
         ELSE IF StrLess(a.path, b.path) THEN 1 ELSE 0
    [] OTHER -> 0

\* Array.prototype.sort on a short array: insertion sort, stable
RECURSIVE InsertSorted(_, _, _)
InsertSorted(acc, x, id) ==
  IF acc = <<>> THEN <<x>>
  ELSE IF SortFn(id, Last(acc), x) > 0
       THEN Append(InsertSorted(Front(acc), x, id), Last(acc))
       ELSE Append(acc, x)

RECURSIVE SortFrom(_, _, _)
SortFrom(files, acc, id) ==
  IF files = <<>> THEN acc
  ELSE SortFrom(Tail(files), InsertSorted(acc, files[1], id), id)

ApplySort(files, id) ==
  IF id # "none" THEN SortFrom(files, <<>>, id) ELSE files

\* a variant of the pipeline that maps before it filters
PipelineFilesMapFirst(opts, compilation, moduleAssets) ==
  ApplySort(
    ApplyFilter(
      ApplyMap(
        NormalizeSeparators(
          ApplyPublicPath(
            ApplyBasePath(Collect(compilation, moduleAssets), opts.basePath),
            compilation.publicPath)),
        opts.map),
      opts.filter),
    opts.sort)

\* the descriptor sequence handed to the generator
PipelineFiles(opts, compilation, moduleAssets) ==
  ApplySort(
    ApplyMap(
      ApplyFilter(
        NormalizeSeparators(
          ApplyPublicPath(
            ApplyBasePath(Collect(compilation, moduleAssets), opts.basePath),
            compilation.publicPath)),
        opts.filter),
      opts.map),
    opts.sort)

(***************************************************************************)
(* emit: the manifest.  A JavaScript object with string values is the      *)
(* sequence of its [k, v] properties in insertion order.                   *)
(***************************************************************************)
Keys(obj) == {obj[i].k : i \in 1..Len(obj)}

Get(obj, key) == (CHOOSE i \in 1..Len(obj) : obj[i].k = key)

\* obj[key] = value
ObjSet(obj, key, value) ==
  IF key \in Keys(obj)
  THEN [i \in 1..Len(obj) |->
          IF obj[i].k = key THEN [k |-> key, v |-> value] ELSE obj[i]]
  ELSE Append(obj, [k |-> key, v |-> value])

ObjGet(obj, key) == obj[Get(obj, key)].v

\* files.reduce((manifest, file) => { manifest[file.name] = file.path; ... }, seed)
RECURSIVE FoldFiles(_, _)
FoldFiles(files, manifest) ==
  IF files = <<>> THEN manifest
  ELSE FoldFiles(Tail(files), ObjSet(manifest, files[1].name, files[1].path))

\* the value a custom generator returns
ConstantManifest == <<[k |-> <<"c">>, v |-> <<"v">>]>>

\* Generate with opts.generate ignored
GenerateByDefault(opts, seed, files) ==
  [manifest |-> FoldFiles(files, seed), seed |-> FoldFiles(files, seed)]

\* Generate with the default fold run on a copy of the seed
GenerateIntoCopy(opts, seed, files) ==
  CASE opts.generate = "constant" ->
         [manifest |-> ConstantManifest, seed |-> seed]
    [] OTHER ->
         [manifest |-> FoldFiles(files, seed), seed |-> seed]

\* Generate with the default fold run on an object made for the build
GenerateFromEmpty(opts, seed, files) ==
  CASE opts.generate = "constant" ->
         [manifest |-> ConstantManifest, seed |-> seed]
    [] opts.generate = "fresh" ->
         [manifest |-> FoldFiles(files, seed), seed |-> seed]
    [] OTHER ->
         [manifest |-> FoldFiles(files, <<>>), seed |-> FoldFiles(files, <<>>)]

\* opts.generate(seed, files): the manifest and the seed object afterwards
\*   "constant": (seed, files) => ({c: 'v'})
\*   "fresh":    (seed, files) => files.reduce(..., Object.assign({}, seed))
Generate(opts, seed, files) ==
  CASE opts.generate = "constant" ->
         [manifest |-> ConstantManifest, seed |-> seed]
    [] opts.generate = "fresh" ->
         [manifest |-> FoldFiles(files, seed), seed |-> seed]
    [] OTHER ->
         [manifest |-> FoldFiles(files, seed), seed |-> FoldFiles(files, seed)]

(***************************************************************************)
(* serialize: JSON.stringify(manifest, null, 2), as the lines of the text  *)
(***************************************************************************)
RECURSIVE JsonEscape(_)
JsonEscape(s) ==
  IF s = <<>> THEN <<>>
  ELSE (CASE s[1] = "\"" -> <<"\\", "\"">>
          [] s[1] = "\\" -> <<"\\", "\\">>
          [] s[1] = "\n" -> <<"\\", "n">>
          [] OTHER -> <<s[1]>>) \o JsonEscape(Tail(s))

JsonQuote(s) == <<"\"">> \o JsonEscape(s) \o <<"\"">>

Serialize(manifest) ==
  IF manifest = <<>> THEN << <<"{", "}">> >>
  ELSE << <<"{">> >>
       \o [i \in 1..Len(manifest) |->
             <<" ", " ">> \o JsonQuote(manifest[i].k) \o <<":", " ">>
               \o JsonQuote(manifest[i].v)
               \o (IF i < Len(manifest) THEN <<",">> ELSE <<>>)]
       \o << <<"}">> >>

\* JSON.parse of such a text, as the tests read the manifest back
RECURSIVE ReadString(_, _, _)
ReadString(line, i, acc) ==
  IF line[i] = "\"" THEN [str |-> acc, next |-> i + 1]
  ELSE IF line[i] = "\\"
       THEN ReadString(line, i + 2,
                       Append(acc, IF line[i + 1] = "n" THEN "\n" ELSE line[i + 1]))
       ELSE ReadString(line, i + 1, Append(acc, line[i]))

ParseLine(line) ==
  LET key == ReadString(line, 4, <<>>)
      val == ReadString(line, key.next + 3, <<>>)
  IN [k |-> key.str, v |-> val.str]

JsonParse(lines) ==
  IF Len(lines) = 1 THEN <<>>
  ELSE [i \in 1..(Len(lines) - 2) |-> ParseLine(lines[i + 1])]

(***************************************************************************)
(* State                                                                   *)
(***************************************************************************)
NumCompilers == 3

MaxBuilds == 2

\* the emit events of one run, over all compilers
MaxEmits == 4

Compilers == 1..NumCompilers

None == <<0, 0>>

VARIABLES
  hostApi,       \* "hooks" when compiler.hooks exists, else "legacy"
  opts,          \* this.opts, the same for every plugin instance
  seeds,         \* the seed objects: 0 is the caller's, c is apply's own {}
  moduleAssets,  \* per compiler, apply's moduleAssets registry
  phase,         \* per compiler, where the host is in the build
  builds,        \* per compiler, the number of emit events so far
  compilation,   \* per compiler, the compilation handed to the last emit
  artifact,      \* per compiler, compilation.assets[outputName].source()
  disk,          \* the text of the manifest file in the output folder
  used,          \* mutexify: the build whose callback holds the lock
  queue,         \* mutexify: the waiting lock callbacks, oldest first
  taps,          \* per compiler, the after-emit handlers registered on it
  notified,      \* the calls of the downstream hook, oldest first
  awaiting,      \* builds whose hook holds a continuation not yet invoked
  releases,      \* per build, how often the handler it registered has run
  emitted,       \* the builds in the order of their emit events
  doneBefore,    \* per build, the builds that were over at its emit event
                 \* and had not released the lock by then
  platform,      \* "posix" or "win32": which path module require('path') is
  ftStr,         \* the argument of a call of getFileType
  ftType         \* the values the calls of getFileType(ftStr) returned

vars ==
  <<hostApi, opts, seeds, moduleAssets, phase, builds, compilation, artifact,
    disk, used, queue, taps, notified, awaiting, releases, emitted,
    doneBefore, platform, ftStr, ftType>>

DefaultOpts ==
  [basePath |-> <<>>, writeToFileEmit |-> FALSE, seed |-> "null",
   filter |-> "none", map |-> "none", generate |-> "none", sort |-> "none"]

\* const seed = this.opts.seed || {}
SeedRef(c) == IF opts.seed = "shared" THEN 0 ELSE c

(***************************************************************************)
(* The lock (const lock = mutexify()) and the lock callback of emit.       *)
(* lk is the part of the state a lock operation reads and writes:          *)
(*   [used, queue, taps, notified, awaiting, releases, heap]               *)
(* A waiting callback is the closure [b, ref, gen]: its build, and the     *)
(* `manifest` it closes over, the seed object ref when ref >= 0 and the    *)
(* generator's own return value gen otherwise.                             *)
(***************************************************************************)
\* compileCallback as emit receives it: the host's continuation of the
\* build for compiler.plugin('emit', emit), absent for hooks.emit.tap
CompileCallback(b) == IF hostApi = "legacy" THEN b ELSE None

\* function(release) { ... }: registers the after-emit handler on the
\* build's compiler, then calls the downstream hook
LockCallback(lk, e) ==
  [lk EXCEPT
     !.taps[e.b[1]] = Append(@, e.b),
     !.notified = Append(@, [build |-> e.b,
                             manifest |-> IF e.ref >= 0 THEN lk.heap[e.ref]
                                          ELSE e.gen,
                             cont |-> CompileCallback(e.b),
                             holder |-> lk.used]),
     !.awaiting = IF hostApi = "legacy" THEN @ \cup {e.b} ELSE @]

\* lock(fn)
Acquire(lk, e) ==
  IF lk.used # None THEN [lk EXCEPT !.queue = Append(@, e)]
  ELSE LockCallback([lk EXCEPT !.used = e.b], e)

\* release()
Release(lk) ==
  IF lk.queue # <<>>
  THEN Acquire([lk EXCEPT !.used = None, !.queue = Tail(@)], Head(lk.queue))
  ELSE [lk EXCEPT !.used = None]

\* the handler a lock callback registered: compilation => { release(); }
AfterEmitHandler(lk, owner) ==
  Release([lk EXCEPT !.releases[owner] = @ + 1])

\* the host calls the handlers registered when the event fires, in order
RECURSIVE RunHandlers(_, _)
RunHandlers(lk, handlers) ==
  IF handlers = <<>> THEN lk
  ELSE RunHandlers(AfterEmitHandler(lk, handlers[1]), Tail(handlers))

LockState(heap) ==
  [used |-> used, queue |-> queue, taps |-> taps, notified |-> notified,
   awaiting |-> awaiting, releases |-> releases, heap |-> heap]

SetLockState(lk) ==
  /\ used' = lk.used
  /\ queue' = lk.queue
  /\ taps' = lk.taps
  /\ notified' = lk.notified
  /\ awaiting' = lk.awaiting
  /\ releases' = lk.releases

(***************************************************************************)
(* Operations                                                              *)
(***************************************************************************)
\* a variant of the emit handler that registers and writes the artifact
\* inside the lock callback: a build that has to wait for the lock leaves
\* the artifact and the output file as they were
EmitStepUnderLock(c, comp) ==
  LET b == <<c, builds[c] + 1>>
      files == PipelineFiles(opts, comp, moduleAssets[c])
      g == Generate(opts, seeds[SeedRef(c)], files)
      output == Serialize(g.manifest)
      heap == [seeds EXCEPT ![SeedRef(c)] = g.seed]
      closure == [b |-> b,
                  ref |-> IF opts.generate = "none" THEN SeedRef(c) ELSE -1,
                  gen |-> IF opts.generate = "none" THEN <<>> ELSE g.manifest]
  IN /\ builds' = [builds EXCEPT ![c] = @ + 1]
     /\ compilation' = [compilation EXCEPT ![c] = comp]
     /\ seeds' = heap
     /\ artifact' = IF used = None THEN [artifact EXCEPT ![c] = output]
                    ELSE artifact
     /\ disk' = IF opts.writeToFileEmit /\ used = None THEN output ELSE disk
     /\ emitted' = Append(emitted, b)
     /\ doneBefore' = [doneBefore EXCEPT ![b] =
                         {x \in Compilers \X (1..MaxBuilds) :
                            /\ x[2] <= builds[x[1]]
                            /\ phase[x[1]] = "idle"
                            /\ releases[x] = 0}]
     /\ SetLockState(Acquire(LockState(heap), closure))
     /\ phase' = [phase EXCEPT ![c] =
                    IF hostApi = "hooks" THEN "emitted" ELSE "emitting"]
     /\ UNCHANGED <<hostApi, opts, moduleAssets, platform, ftStr, ftType>>

\* the emit handler, for build builds[c] + 1 of compiler c
EmitStep(c, comp) ==
  LET b == <<c, builds[c] + 1>>
      files == PipelineFiles(opts, comp, moduleAssets[c])
      g == Generate(opts, seeds[SeedRef(c)], files)
      output == Serialize(g.manifest)
      heap == [seeds EXCEPT ![SeedRef(c)] = g.seed]
      closure == [b |-> b,
                  ref |-> IF opts.generate = "none" THEN SeedRef(c) ELSE -1,
                  gen |-> IF opts.generate = "none" THEN <<>> ELSE g.manifest]
  IN /\ builds' = [builds EXCEPT ![c] = @ + 1]
     /\ compilation' = [compilation EXCEPT ![c] = comp]
     /\ seeds' = heap
     /\ artifact' = [artifact EXCEPT ![c] = output]
     /\ disk' = IF opts.writeToFileEmit THEN output ELSE disk
     /\ emitted' = Append(emitted, b)
     /\ doneBefore' = [doneBefore EXCEPT ![b] =
                         {x \in Compilers \X (1..MaxBuilds) :
                            /\ x[2] <= builds[x[1]]
                            /\ phase[x[1]] = "idle"
                            /\ releases[x] = 0}]
     /\ SetLockState(Acquire(LockState(heap), closure))
     \* hooks.emit.tap: the host goes on when emit returns;
     \* plugin('emit'): the host waits for compileCallback
     /\ phase' = [phase EXCEPT ![c] =
                    IF hostApi = "hooks" THEN "emitted" ELSE "emitting"]
     /\ UNCHANGED <<hostApi, opts, moduleAssets, platform, ftStr, ftType>>

\* the downstream handler of build b invokes its continuation, which is
\* compileCallback: the host goes on with the build
Continue(b) ==
  /\ b \in awaiting
  /\ awaiting' = awaiting \ {b}
  /\ phase' = [phase EXCEPT ![b[1]] = "emitted"]
  /\ UNCHANGED <<hostApi, opts, seeds, moduleAssets, builds, compilation,
                 artifact, disk, used, queue, taps, notified, releases,
                 emitted, doneBefore, platform, ftStr, ftType>>

\* the host writes compilation.assets to the output folder
WriteAssets(c) ==
  /\ phase[c] = "emitted"
  /\ disk' = artifact[c]
  /\ phase' = [phase EXCEPT ![c] = "written"]
  /\ UNCHANGED <<hostApi, opts, seeds, moduleAssets, builds, compilation,
                 artifact, used, queue, taps, notified, awaiting, releases,
                 emitted, doneBefore, platform, ftStr, ftType>>

\* the host fires afterEmit / 'after-emit' of compiler c; the build is done
AfterEmit(c) ==
  /\ phase[c] = "written"
  /\ SetLockState(RunHandlers(LockState(seeds), taps[c]))
  /\ phase' = [phase EXCEPT ![c] = "idle"]
  /\ UNCHANGED <<hostApi, opts, seeds, moduleAssets, builds, compilation,
                 artifact, disk, emitted, doneBefore, platform, ftStr, ftType>>

(***************************************************************************)
(* The builds of the 'multiple compilation' test: compiler c has the       *)
(* entry main-<c-1> and the output file name '[name].js'                   *)
(***************************************************************************)
Digits == <<"0", "1", "2", "3", "4", "5", "6", "7", "8", "9">>

EntryName(c) == sMain \o <<"-", Digits[c]>>

Fixture(c) ==
  [chunks |-> <<[name |-> EntryName(c),
                 files |-> <<EntryName(c) \o sDot \o sJs>>,
                 initial |-> TRUE]>>,
   assets |-> <<[name |-> EntryName(c) \o sDot \o sJs, chunks |-> 1]>>,
   publicPath |-> <<>>]

NoCompilation == [chunks |-> <<>>, assets |-> <<>>, publicPath |-> <<>>]

Builds == Compilers \X (1..MaxBuilds)

\* before the first event: nothing built, the lock free
Unbuilt ==
  /\ moduleAssets = [c \in Compilers |-> <<>>]
  /\ phase = [c \in Compilers |-> "idle"]
  /\ builds = [c \in Compilers |-> 0]
  /\ artifact = [c \in Compilers |-> <<>>]
  /\ disk = <<>>
  /\ used = None
  /\ queue = <<>>
  /\ taps = [c \in Compilers |-> <<>>]
  /\ notified = <<>>
  /\ awaiting = {}
  /\ releases = [b \in Builds |-> 0]
  /\ emitted = <<>>
  /\ doneBefore = [b \in Builds |-> {}]
  /\ ftType = <<>>

\* after apply, with a caller's seed that is {} where there is one
Applied ==
  /\ seeds = [i \in 0..NumCompilers |-> <<>>]
  /\ Unbuilt

Init ==
  /\ hostApi \in {"hooks", "legacy"}
  /\ opts \in {[DefaultOpts EXCEPT !.seed = s] : s \in {"null", "shared"}}
  /\ compilation = [c \in Compilers |-> NoCompilation]
  /\ platform = "posix"
  /\ ftStr = <<>>
  /\ Applied

\* the host fires emit of compiler c: c is not in a build
Emit(c) ==
  /\ phase[c] = "idle"
  /\ builds[c] < MaxBuilds
  /\ Len(emitted) < MaxEmits
  /\ EmitStep(c, Fixture(c))

Next ==
  \/ \E c \in Compilers : Emit(c)
  \/ \E b \in Builds : Continue(b)
  \/ \E c \in Compilers : WriteAssets(c)
  \/ \E c \in Compilers : AfterEmit(c)

Spec == Init /\ [][Next]_vars

(***************************************************************************)
(* The coordinator's view of a build                                       *)
(***************************************************************************)
\* the lock callback of b has run
Acquired(b) == \E i \in 1..Len(notified) : notified[i].build = b

\* the handler b registered has run, and so has called release()
Released(b) == releases[b] > 0

\* b is between its acquisition of the lock and its release of it
Notifying(b) == Acquired(b) /\ ~Released(b)

\* b has asked for the lock and its callback has not run
AwaitingLock(b) == \E i \in 1..Len(queue) : queue[i].b = b

(***************************************************************************)
(* C1: at most one build is between its acquisition of the lock and its    *)
(* release of it, in every reachable state.                                *)
(***************************************************************************)
C1_MutualExclusion ==
  \A b1, b2 \in Builds : Notifying(b1) /\ Notifying(b2) => b1 = b2

(***************************************************************************)
(* C2: N compilers share one seed and each build has one uniquely named    *)
(* chunk; once all N have emitted, the seed and the artifact of the build  *)
(* that emitted last hold exactly the N entries, one per build.            *)
(***************************************************************************)
AllEmitted == \A c \in Compilers : builds[c] >= 1

\* what the 'multiple compilation' test expects to read
ExpectedEntries ==
  {[k |-> EntryName(c) \o sDot \o sJs, v |-> EntryName(c) \o sDot \o sJs] :
     c \in Compilers}

EntriesOf(obj) == {obj[i] : i \in 1..Len(obj)}

LastArtifact == JsonParse(artifact[Last(emitted)[1]])

C2_Accumulation ==
  (opts.seed = "shared" /\ AllEmitted) =>
    /\ EntriesOf(seeds[0]) = ExpectedEntries
    /\ Len(seeds[0]) = NumCompilers
    /\ EntriesOf(LastArtifact) = ExpectedEntries
    /\ Len(LastArtifact) = NumCompilers

\* all have emitted, the shared seed is in use, and the first compiler
\* was the last to emit
C2_Witness ==
  /\ opts.seed = "shared"
  /\ AllEmitted
  /\ Last(emitted)[1] = 1
  /\ emitted[1][1] # 1

(***************************************************************************)
(* C3: the downstream hook is invoked exactly once per build, with the     *)
(* manifest of that build and the continuation of that build, while that   *)
(* build holds the lock.                                                   *)
(***************************************************************************)
C3_HookOncePerBuild ==
  /\ \A i, j \in 1..Len(notified) :
       notified[i].build = notified[j].build => i = j
  /\ \A i \in 1..Len(notified) :
       /\ notified[i].holder = notified[i].build
       /\ notified[i].cont = notified[i].build

(***************************************************************************)
(* C4: the handler a build registers while holding the lock is one-shot:   *)
(* it releases the lock once, and does not run on later build-finalization *)
(* events of the same compiler.                                            *)
(***************************************************************************)
C4_HandlerOneShot == \A b \in Builds : releases[b] <= 1

(***************************************************************************)
(* C5: of two sequential builds (the first over before the second's emit), *)
(* the second does not begin its Notifying phase before the first has      *)
(* released the lock.                                                      *)
(***************************************************************************)
C5_FinalizationOrdering ==
  \A b2 \in Builds : \A b1 \in doneBefore[b2] :
    Acquired(b2) => Released(b1)

(***************************************************************************)
(* C6: while the continuation handed to the hook of the build holding the  *)
(* lock has not been invoked, the lock is not released: that build still   *)
(* holds it, and whoever asked for it afterwards is still waiting.         *)
(***************************************************************************)
ContinuationInvoked(b) ==
  Acquired(b) /\ hostApi = "legacy" /\ b \notin awaiting

C6_StarvationWithoutContinuation ==
  \A b \in Builds :
    (Acquired(b) /\ ~ContinuationInvoked(b)) =>
      /\ used = b
      /\ Last(notified).build = b


(***************************************************************************)
(* Calls of getFileType: the argument is drawn from the strings made of at *)
(* most MaxTokens of the tokens below, the call appends what it returns    *)
(***************************************************************************)
MaxTokens == 5

sBundle == <<"b", "u", "n", "d", "l", "e">>
sCss == <<"c", "s", "s">>
sQuery == <<"?">>

Tokens == {sBundle, sJs, sCss, sGz, sMap, <<"G", "Z">>, sDot, sQuery}

RECURSIVE Concatenations(_)
Concatenations(n) ==
  IF n = 0 THEN {<<>>}
  ELSE LET shorter == Concatenations(n - 1)
       IN shorter \cup {s \o t : s \in shorter, t \in Tokens}

InitFileType ==
  /\ hostApi = "hooks"
  /\ opts = DefaultOpts
  /\ compilation = [c \in Compilers |-> NoCompilation]
  /\ platform = "posix"
  /\ ftStr \in Concatenations(MaxTokens)
  /\ Applied

\* this.getFileType(ftStr)
CallGetFileType ==
  /\ ftType = <<>>
  /\ ftType' = <<getFileType(ftStr)>>
  /\ UNCHANGED <<hostApi, opts, seeds, moduleAssets, phase, builds,
                 compilation, artifact, disk, used, queue, taps, notified,
                 awaiting, releases, emitted, doneBefore, platform, ftStr>>

NextFileType == CallGetFileType

SpecFileType == InitFileType /\ [][NextFileType]_vars

\* the part of a path before its query string
BeforeQuery(p) ==
  IF \E i \in 1..Len(p) : p[i] = "?"
  THEN SubSeq(p, 1, (CHOOSE i \in 1..Len(p) :
                        p[i] = "?" /\ \A j \in 1..(i - 1) : p[j] # "?") - 1)
  ELSE p

\* index of the last '.' of p, 0 when it has none
LastDot(p) ==
  IF \E i \in 1..Len(p) : p[i] = "."
  THEN CHOOSE i \in 1..Len(p) :
         p[i] = "." /\ \A j \in (i + 1)..Len(p) : p[j] # "."
  ELSE 0

\* the final dot-delimited extension of p
FinalExtension(p) == SubSeq(p, LastDot(p) + 1, Len(p))

\* the two final extensions of p, joined by the dot between them
TwoFinalExtensions(p) ==
  LET i == LastDot(p)
      j == IF i = 0 THEN 0 ELSE LastDot(SubSeq(p, 1, i - 1))
  IN SubSeq(p, j + 1, Len(p))

ExpectedFileType(p) ==
  LET q == BeforeQuery(p)
  IN IF ToLower(FinalExtension(q)) \in {sGz, sMap}
     THEN TwoFinalExtensions(q) ELSE FinalExtension(q)

(***************************************************************************)
(* C9: for every path, getFileType returns the final dot-delimited         *)
(* extension of the path without its query string, or, when that extension *)
(* is gz or map in any letter case, the two final extensions joined by a   *)
(* dot; bundle.js.gz gives js.gz, bundle.js.map gives js.map and           *)
(* bundle.css gives css.                                                   *)
(***************************************************************************)
C9_FileType ==
  ftType # <<>> =>
    /\ ftType[1] = ExpectedFileType(ftStr)
    /\ ftStr = sBundle \o sDot \o sJs \o sDot \o sGz
         => ftType[1] = sJs \o sDot \o sGz
    /\ ftStr = sBundle \o sDot \o sJs \o sDot \o sMap
         => ftType[1] = sJs \o sDot \o sMap
    /\ ftStr = sBundle \o sDot \o sCss => ftType[1] = sCss

(***************************************************************************)
(* One build of one compiler, over the compilations the host can hand to   *)
(* emit: the host adds chunks, chunk files and assets and fires            *)
(* module-asset, then fires emit.                                          *)
(***************************************************************************)
MaxChunks == 2

MaxFiles == 2

fMainJs == sMain \o sDot \o sJs
fMainJsMap == fMainJs \o sDot \o sMap
fHotUpdate == <<"0", ".">> \o HotUpdate \o sDot \o sJs
fImage == <<"i", "m", "g", "\\", "a", ".", "p", "n", "g">>

OutputFiles == {fMainJs, fMainJsMap, fHotUpdate, fImage}

UserRequests == {<<"l", "i", "b", "/", "l", "o", "g", "o", ".", "p", "n", "g">>}

\* an entry chunk has a name and is initial, an async chunk has neither
ChunkKinds == {[name |-> sMain, initial |-> TRUE], [name |-> <<>>, initial |-> FALSE]}

BasePaths == {<<>>, <<"/", "s", "t", "a", "t", "i", "c", "/">>}

PublicPaths ==
  {<<>>, <<"h", "t", "t", "p", "s", ":", "/", "/", "c", "d", "n", ".", "e", "x",
           "a", "m", "p", "l", "e", ".", "c", "o", "m", "/">>}

EmitOpts ==
  {[DefaultOpts EXCEPT !.basePath = b, !.filter = f, !.map = m] :
     b \in BasePaths, f \in {"none", "isInitial"}, m \in {"none", "oneName"}}

InitEmit ==
  /\ hostApi = "hooks"
  /\ opts \in EmitOpts
  /\ compilation \in {[c \in Compilers |-> [NoCompilation EXCEPT !.publicPath = pp]] :
                        pp \in PublicPaths}
  /\ platform \in {"posix", "win32"}
  /\ ftStr = <<>>
  /\ Applied

\* compiler 1 is building its first compilation
Compiling(c) == c = 1 /\ phase[c] = "idle" /\ builds[c] = 0

AssetNames(comp) == {comp.assets[i].name : i \in 1..Len(comp.assets)}

\* the host may add file f to the compilation of compiler c
FreshFile(c, f) ==
  /\ Compiling(c)
  /\ Len(compilation[c].assets) < MaxFiles
  /\ f \notin AssetNames(compilation[c])

\* the host creates a chunk, once the chunks before it have their files
AddChunk(c, kind) ==
  /\ Compiling(c)
  /\ Len(compilation[c].chunks) < MaxChunks
  /\ \A i \in 1..Len(compilation[c].chunks) :
        compilation[c].chunks[i].files # <<>>
  /\ compilation' = [compilation EXCEPT ![c].chunks =
                       Append(@, [name |-> kind.name, files |-> <<>>,
                                  initial |-> kind.initial])]
  /\ UNCHANGED <<hostApi, opts, seeds, moduleAssets, phase, builds, artifact,
                 disk, used, queue, taps, notified, awaiting, releases,
                 emitted, doneBefore, platform, ftStr, ftType>>

\* the host renders file f of the chunk created last: the file is in
\* chunk.files and in the assets, with the chunk in asset.chunks
AddChunkFile(c, f) ==
  /\ FreshFile(c, f)
  /\ compilation[c].chunks # <<>>
  /\ compilation' = [compilation EXCEPT
                       ![c].chunks[Len(compilation[c].chunks)].files = Append(@, f),
                       ![c].assets = Append(@, [name |-> f, chunks |-> 1])]
  /\ UNCHANGED <<hostApi, opts, seeds, moduleAssets, phase, builds, artifact,
                 disk, used, queue, taps, notified, awaiting, releases,
                 emitted, doneBefore, platform, ftStr, ftType>>

\* another plugin emits asset f, which belongs to no chunk
AddAsset(c, f) ==
  /\ FreshFile(c, f)
  /\ compilation' = [compilation EXCEPT
                       ![c].assets = Append(@, [name |-> f, chunks |-> 0])]
  /\ UNCHANGED <<hostApi, opts, seeds, moduleAssets, phase, builds, artifact,
                 disk, used, queue, taps, notified, awaiting, releases,
                 emitted, doneBefore, platform, ftStr, ftType>>

\* a loader emitted file f for the module required as userRequest: the
\* host puts f into the assets and fires module-asset, handled by moduleAsset
ModuleAssetEvent(c, userRequest, f) ==
  /\ FreshFile(c, f)
  /\ compilation' = [compilation EXCEPT
                       ![c].assets = Append(@, [name |-> f, chunks |-> 0])]
  /\ moduleAssets' = [moduleAssets EXCEPT
                        ![c] = moduleAsset(@, userRequest, f, platform)]
  /\ UNCHANGED <<hostApi, opts, seeds, phase, builds, artifact, disk, used,
                 queue, taps, notified, awaiting, releases, emitted,
                 doneBefore, platform, ftStr, ftType>>

\* the host fires emit with the compilation it built
EmitCompilation(c) ==
  /\ Compiling(c)
  /\ EmitStep(c, compilation[c])

NextEmit ==
  \/ \E c \in Compilers, kind \in ChunkKinds : AddChunk(c, kind)
  \/ \E c \in Compilers, f \in OutputFiles : AddChunkFile(c, f)
  \/ \E c \in Compilers, f \in OutputFiles : AddAsset(c, f)
  \/ \E c \in Compilers, r \in UserRequests, f \in OutputFiles :
       ModuleAssetEvent(c, r, f)
  \/ \E c \in Compilers : EmitCompilation(c)

SpecEmit == InitEmit /\ [][NextEmit]_vars

\* compiler 1 has emitted
Built == builds[1] = 1

\* the manifest file of the build, read back
Manifest == JsonParse(artifact[1])

Values(obj) == [i \in 1..Len(obj) |-> obj[i].v]

NotHot(p) == ~Includes(p, HotUpdate)

\* the compilation without its files whose path contains 'hot-update'
WithoutHotUpdates(comp) ==
  [chunks |-> [i \in 1..Len(comp.chunks) |->
                 [comp.chunks[i] EXCEPT !.files = SelectSeq(@, NotHot)]],
   assets |-> SelectSeq(comp.assets, LAMBDA a : NotHot(a.name)),
   publicPath |-> comp.publicPath]

(***************************************************************************)
(* C7: whatever filter and map are configured, the files of a build whose  *)
(* path contains 'hot-update' contribute nothing to its manifest: the      *)
(* manifest is the one the same build gives without these files, and no    *)
(* value of it contains 'hot-update'.                                      *)
(***************************************************************************)
C7_HotUpdateExclusion ==
  Built =>
    /\ Manifest = FoldFiles(PipelineFiles(opts, WithoutHotUpdates(compilation[1]),
                                          moduleAssets[1]), <<>>)
    /\ \A i \in 1..Len(Manifest) : NotHot(Manifest[i].v)

\* a build with a hot-update file and another file in a chunk, under a
\* filter and a map, has a manifest
C7_Witness ==
  /\ Built
  /\ opts.filter # "none"
  /\ opts.map # "none"
  /\ \E i \in 1..Len(compilation[1].chunks) :
       \E j, k \in 1..Len(compilation[1].chunks[i].files) :
         /\ ~NotHot(compilation[1].chunks[i].files[j])
         /\ NotHot(compilation[1].chunks[i].files[k])
  /\ Manifest # <<>>

\* the chunk files of the build: [chunk, path]
OutputFilesOf(comp) ==
  UNION {{[chunk |-> comp.chunks[i], path |-> comp.chunks[i].files[j]] :
            j \in 1..Len(comp.chunks[i].files)} : i \in 1..Len(comp.chunks)}

\* '<chunkName>.<fileType of the file>' for a named chunk, else the path
DefaultKey(o) ==
  IF o.chunk.name # <<>> THEN o.chunk.name \o sDot \o getFileType(o.path)
  ELSE o.path

DefaultCase ==
  /\ Built
  /\ opts = DefaultOpts
  /\ compilation[1].publicPath = <<>>

\* one chunk 'main' with the one file 'main.js'
SingleEntry ==
  /\ compilation[1].chunks =
       <<[name |-> sMain, files |-> <<fMainJs>>, initial |-> TRUE]>>
  /\ compilation[1].assets = <<[name |-> fMainJs, chunks |-> 1]>>

MainJsOnly == <<[k |-> fMainJs, v |-> fMainJs]>>

(***************************************************************************)
(* C8: with the default configuration, an empty seed and no public path,   *)
(* the manifest maps, for every file of a named chunk, the key             *)
(* '<chunkName>.<fileType>' to the file's path, and for every file of a    *)
(* nameless chunk the file's path to itself; one chunk 'main' with one     *)
(* file 'main.js' gives exactly {"main.js": "main.js"}.                    *)
(***************************************************************************)
C8_DefaultManifest ==
  DefaultCase =>
    /\ \A o \in OutputFilesOf(compilation[1]) :
         /\ DefaultKey(o) \in Keys(Manifest)
         /\ ObjGet(Manifest, DefaultKey(o)) = o.path
    /\ SingleEntry => Manifest = MainJsOnly

\* the path of the descriptor collected last under the manifest key
LastCollectedUnder(key) ==
  LET files == Collect(compilation[1], moduleAssets[1])
      last == CHOOSE i \in 1..Len(files) :
                /\ ReplaceBackslash(files[i].name) = key
                /\ \A j \in (i + 1)..Len(files) :
                     ReplaceBackslash(files[j].name) # key
  IN files[last].path

(***************************************************************************)
(* C8 as the code has it: with the default configuration, an empty seed    *)
(* and no public path, for every chunk file whose path does not contain    *)
(* 'hot-update' the manifest has the key '<chunkName>.<fileType>' (named   *)
(* chunk) or the file's path (nameless chunk), backslashes replaced by     *)
(* '/', and the key maps to the path, backslashes replaced by '/', of the  *)
(* descriptor collected last under that key, which is the file itself      *)
(* when no later descriptor has its key; one chunk 'main' with one file    *)
(* 'main.js' gives exactly {"main.js": "main.js"}.                         *)
(***************************************************************************)
C8_DefaultManifestAmended ==
  DefaultCase =>
    /\ \A o \in OutputFilesOf(compilation[1]) :
         NotHot(o.path) =>
           LET key == ReplaceBackslash(DefaultKey(o))
           IN /\ key \in Keys(Manifest)
              /\ ObjGet(Manifest, key) = ReplaceBackslash(LastCollectedUnder(key))
              /\ (\A p \in OutputFilesOf(compilation[1]) \ {o} :
                    ReplaceBackslash(DefaultKey(p)) # key)
                   => ObjGet(Manifest, key) = ReplaceBackslash(o.path)
    /\ SingleEntry => Manifest = MainJsOnly

\* a default build with a named and a nameless chunk, each with a file
C8_Witness ==
  /\ DefaultCase
  /\ \E o, p \in OutputFilesOf(compilation[1]) :
       /\ o.chunk.name # <<>> /\ NotHot(o.path)
       /\ p.chunk.name = <<>> /\ NotHot(p.path)
  /\ Len(Manifest) = 2

\* the descriptors collected for the build
Collected == Collect(compilation[1], moduleAssets[1])

\* the manifest of the same build with basePath left at ''
WithoutBasePath ==
  FoldFiles(PipelineFiles([opts EXCEPT !.basePath = <<>>], compilation[1],
                          moduleAssets[1]), <<>>)

PublicPathOpts ==
  {[DefaultOpts EXCEPT !.filter = f, !.map = m] :
     f \in {"none", "isInitial"}, m \in {"none", "tagPath"}}

InitPublicPath ==
  /\ hostApi = "hooks"
  /\ opts \in PublicPathOpts
  /\ compilation \in {[c \in Compilers |-> [NoCompilation EXCEPT !.publicPath = pp]] :
                        pp \in PublicPaths}
  /\ platform = "posix"
  /\ ftStr = <<>>
  /\ Applied

SpecPublicPath == InitPublicPath /\ [][NextEmit]_vars

KeySeq(obj) == [i \in 1..Len(obj) |-> obj[i].k]

\* the manifest of the same build with no public path declared
WithoutPublicPath ==
  FoldFiles(PipelineFiles(opts, [compilation[1] EXCEPT !.publicPath = <<>>],
                          moduleAssets[1]), <<>>)

PublicPathCase == Built /\ compilation[1].publicPath # <<>>

SeedContent == <<[k |-> fMainJs, v |-> <<"o", "l", "d">>]>>

GenerateOpts ==
  {[DefaultOpts EXCEPT !.generate = g, !.seed = sd] :
     g \in {"none", "constant", "fresh"}, sd \in {"null", "shared"}}

InitGenerate ==
  /\ hostApi \in {"hooks", "legacy"}
  /\ opts \in GenerateOpts
  /\ compilation = [c \in Compilers |-> NoCompilation]
  /\ platform = "posix"
  /\ ftStr = <<>>
  /\ seeds = [i \in 0..NumCompilers |-> IF i = 0 THEN SeedContent ELSE <<>>]
  /\ Unbuilt

SpecGenerate == InitGenerate /\ [][NextEmit]_vars

\* the seed of compiler 1 as apply found it
SeedAtApply == IF opts.seed = "shared" THEN SeedContent ELSE <<>>

\* what the generator of compiler 1's build is to return
ExpectedReturn ==
  IF opts.generate = "constant" THEN ConstantManifest
  ELSE FoldFiles(PipelineFiles(opts, compilation[1], moduleAssets[1]),
                 SeedAtApply)

GenerateCase == Built /\ opts.generate # "none"

(***************************************************************************)
(* C12: when a generate function is configured, what it returns for the    *)
(* seed and the descriptor sequence of the build is the manifest that is   *)
(* serialized into the artifact and passed, once, to the downstream hook;  *)
(* a generator returning a constant gives that constant whatever the build *)
(* holds; and the default fold does not run: the seed stays as it was.     *)
(***************************************************************************)
C12_GeneratorOverride ==
  GenerateCase =>
    /\ artifact[1] = Serialize(ExpectedReturn)
    /\ Manifest = ExpectedReturn
    /\ Len(notified) = 1
    /\ notified[1].manifest = ExpectedReturn
    /\ opts.generate = "constant" => Manifest = ConstantManifest
    /\ seeds[SeedRef(1)] = SeedAtApply

\* a build with a constant generator, a seed with an entry and two files
C12_Witness ==
  /\ GenerateCase
  /\ opts.generate = "constant"
  /\ opts.seed = "shared"
  /\ Len(Collected) = 2
  /\ notified # <<>>

(***************************************************************************)
(* One build of one compiler under the default options, over every         *)
(* combination of chunks, chunk files, assets and registry entries: a file *)
(* may be rendered for two chunks, and module-asset may fire for a file    *)
(* the compilation already has                                             *)
(***************************************************************************)
InitCollect ==
  /\ hostApi = "hooks"
  /\ opts = DefaultOpts
  /\ compilation = [c \in Compilers |-> NoCompilation]
  /\ platform = "posix"
  /\ ftStr = <<>>
  /\ Applied

\* the host renders for the chunk created last a file it has rendered for
\* an earlier chunk with the same content: the file is in both chunk.files
ShareChunkFile(c, f) ==
  /\ Compiling(c)
  /\ compilation[c].chunks # <<>>
  /\ \E i \in 1..(Len(compilation[c].chunks) - 1) :
       \E j \in 1..Len(compilation[c].chunks[i].files) :
         compilation[c].chunks[i].files[j] = f
  /\ \A j \in 1..Len(Last(compilation[c].chunks).files) :
       Last(compilation[c].chunks).files[j] # f
  /\ compilation' = [compilation EXCEPT
                       ![c].chunks[Len(compilation[c].chunks)].files = Append(@, f),
                       ![c].assets = [i \in 1..Len(@) |->
                                        IF @[i].name = f
                                        THEN [@[i] EXCEPT !.chunks = @ + 1]
                                        ELSE @[i]]]
  /\ UNCHANGED <<hostApi, opts, seeds, moduleAssets, phase, builds, artifact,
                 disk, used, queue, taps, notified, awaiting, releases,
                 emitted, doneBefore, platform, ftStr, ftType>>

\* a loader emitted, for the module required as userRequest, a file f the
\* compilation already has: the host fires module-asset, handled by
\* moduleAsset
ModuleAssetEventOnAsset(c, userRequest, f) ==
  /\ Compiling(c)
  /\ f \in AssetNames(compilation[c])
  /\ f \notin DOMAIN moduleAssets[c]
  /\ moduleAssets' = [moduleAssets EXCEPT
                        ![c] = moduleAsset(@, userRequest, f, platform)]
  /\ UNCHANGED <<hostApi, opts, seeds, phase, builds, compilation, artifact,
                 disk, used, queue, taps, notified, awaiting, releases,
                 emitted, doneBefore, platform, ftStr, ftType>>

NextCollect ==
  \/ NextEmit
  \/ \E c \in Compilers, f \in OutputFiles : ShareChunkFile(c, f)
  \/ \E c \in Compilers, r \in UserRequests, f \in OutputFiles :
       ModuleAssetEventOnAsset(c, r, f)

SpecCollect == InitCollect /\ [][NextCollect]_vars

\* the descriptors collected for path p
DescriptorsOf(p) == {i \in 1..Len(Collected) : Collected[i].path = p}

(***************************************************************************)
(* C13: after collection the descriptor sequence holds exactly one         *)
(* descriptor for every output path that is no hot-update path, whatever   *)
(* chunks, chunk files, assets and registry entries the host delivers.     *)
(***************************************************************************)
C13_DescriptorUniqueness ==
  Built =>
    \A p \in AssetNames(compilation[1]) :
      NotHot(p) => Cardinality(DescriptorsOf(p)) = 1

(***************************************************************************)
(* Watch mode: two compilers, each rebuilding; from one build to the next  *)
(* an async chunk comes or goes and the entry's file name changes with the *)
(* hash, as in the 'watch mode' test ('[name].[hash].js' with the          *)
(* HotModuleReplacementPlugin)                                             *)
(***************************************************************************)
Watchers == {1, 2}

fAsync == <<"0">> \o sDot \o sJs
fMainHashed == sMain \o sDot \o <<"1">> \o sDot \o sJs

EntryOnly ==
  [chunks |-> <<[name |-> sMain, files |-> <<fMainJs>>, initial |-> TRUE]>>,
   assets |-> <<[name |-> fMainJs, chunks |-> 1]>>,
   publicPath |-> <<>>]

EntryAndAsync ==
  [chunks |-> <<[name |-> sMain, files |-> <<fMainJs>>, initial |-> TRUE],
                [name |-> <<>>, files |-> <<fAsync>>, initial |-> FALSE]>>,
   assets |-> <<[name |-> fMainJs, chunks |-> 1], [name |-> fAsync, chunks |-> 1]>>,
   publicPath |-> <<>>]

EntryHotUpdated ==
  [chunks |-> <<[name |-> sMain, files |-> <<fMainHashed, fHotUpdate>>,
                 initial |-> TRUE]>>,
   assets |-> <<[name |-> fMainHashed, chunks |-> 1],
                [name |-> fHotUpdate, chunks |-> 1]>>,
   publicPath |-> <<>>]

WatchCompilations == {EntryOnly, EntryAndAsync, EntryHotUpdated}

InitWatch ==
  /\ hostApi = "hooks"
  /\ opts \in {[DefaultOpts EXCEPT !.seed = sd] : sd \in {"null", "shared"}}
  /\ compilation = [c \in Compilers |-> NoCompilation]
  /\ platform = "posix"
  /\ ftStr = <<>>
  /\ Applied

\* the host fires emit of watching compiler c with the compilation it made
EmitWatch(c, comp) ==
  /\ c \in Watchers
  /\ phase[c] = "idle"
  /\ builds[c] < MaxBuilds
  /\ Len(emitted) < MaxEmits
  /\ EmitStep(c, comp)

NextWatch ==
  \/ \E c \in Compilers, comp \in WatchCompilations : EmitWatch(c, comp)
  \/ \E c \in Compilers : WriteAssets(c)
  \/ \E c \in Compilers : AfterEmit(c)

SpecWatch == InitWatch /\ [][NextWatch]_vars

\* the mapping from the logical names of compiler c's current build to its
\* emitted paths
CurrentMapping(c) ==
  FoldFiles(PipelineFiles(opts, compilation[c], moduleAssets[c]), <<>>)

(***************************************************************************)
(* C14: with the default seed, the manifest a compiler has written after   *)
(* each of its builds, rebuilds included, is exactly the mapping from the  *)
(* logical names of that build to its emitted paths, with nothing from an  *)
(* earlier build in it.                                                    *)
(***************************************************************************)
C14_WatchRebuild ==
  \A c \in Watchers :
    (opts.seed = "null" /\ phase[c] = "written")
      => JsonParse(artifact[c]) = CurrentMapping(c)

(***************************************************************************)
(* The builds of the 'multiple compilation' test: two compilers with one   *)
(* seed, with and without writeToFileEmit, both writing the one output     *)
(* file                                                                    *)
(***************************************************************************)
InitWrite ==
  /\ hostApi \in {"hooks", "legacy"}
  /\ opts \in {[DefaultOpts EXCEPT !.seed = "shared", !.writeToFileEmit = w] :
                 w \in BOOLEAN}
  /\ compilation = [c \in Compilers |-> NoCompilation]
  /\ platform = "posix"
  /\ ftStr = <<>>
  /\ Applied

\* the two compilers of the test
Writers == {1, 2}

\* the host fires emit of one of the two
EmitWrite(c) ==
  /\ c \in Writers
  /\ Emit(c)

NextWrite ==
  \/ \E c \in Compilers : EmitWrite(c)
  \/ \E b \in Builds : Continue(b)
  \/ \E c \in Compilers : WriteAssets(c)
  \/ \E c \in Compilers : AfterEmit(c)

SpecWrite == InitWrite /\ [][NextWrite]_vars

\* the step is the emit handler of compiler c
EmitOf(c) == builds'[c] = builds[c] + 1

\* what the emit handler of compiler c serializes, from the seed as the
\* step finds it
OutputOf(c) ==
  Serialize(FoldFiles(PipelineFiles(opts, compilation'[c], moduleAssets[c]),
                      seeds[SeedRef(c)]))

TransformOpts ==
  {[DefaultOpts EXCEPT !.filter = f, !.map = m, !.sort = st] :
     f \in {"none", "isInitial"},
     m \in {"none", "tagPath", "markInitial"},
     st \in {"none", "byPathDesc"}}

InitTransform ==
  /\ hostApi = "hooks"
  /\ opts \in TransformOpts
  /\ compilation = [c \in Compilers |-> NoCompilation]
  /\ platform = "posix"
  /\ ftStr = <<>>
  /\ Applied

\* the devtool adds the source map of main.js to the chunk main.js is in,
\* after all chunks are rendered
AddSourceMap(c) ==
  /\ Compiling(c)
  /\ fMainJsMap \notin AssetNames(compilation[c])
  /\ \E i \in 1..Len(compilation[c].chunks) :
       /\ \E j \in 1..Len(compilation[c].chunks[i].files) :
            compilation[c].chunks[i].files[j] = fMainJs
       /\ compilation' = [compilation EXCEPT
                            ![c].chunks[i].files = Append(@, fMainJsMap),
                            ![c].assets = Append(@, [name |-> fMainJsMap,
                                                     chunks |-> 1])]
  /\ UNCHANGED <<hostApi, opts, seeds, moduleAssets, phase, builds, artifact,
                 disk, used, queue, taps, notified, awaiting, releases,
                 emitted, doneBefore, platform, ftStr, ftType>>

NextTransform ==
  \/ NextEmit
  \/ \E c \in Compilers : AddSourceMap(c)

SpecTransform == InitTransform /\ [][NextTransform]_vars

\* the descriptors after hot-update exclusion and path normalization
Normalized ==
  NormalizeSeparators(
    ApplyPublicPath(ApplyBasePath(Collected, opts.basePath),
                    compilation[1].publicPath))

\* the normalized descriptors the configured filter accepts
Passed ==
  SelectSeq(Normalized,
            LAMBDA f : opts.filter = "none" \/ FilterFn(opts.filter, f))

\* the configured map, applied once to each of them
Mapped ==
  [i \in 1..Len(Passed) |->
     IF opts.map = "none" THEN Passed[i] ELSE MapFn(opts.map, Passed[i])]

NamePath(files) ==
  [i \in 1..Len(files) |-> [name |-> files[i].name, path |-> files[i].path]]

\* what the default generator received, as the manifest has it: one entry
\* per descriptor, in the order of the descriptors, when no two descriptors
\* have the same name
Received == [i \in 1..Len(Manifest) |-> [name |-> Manifest[i].k,
                                         path |-> Manifest[i].v]]

DistinctNames(files) ==
  \A i, j \in 1..Len(files) : files[i].name = files[j].name => i = j

\* no descriptor comes before one the comparison function puts ahead of it
Ordered(files, id) ==
  \A i, j \in 1..Len(files) : i < j => SortFn(id, files[i], files[j]) <= 0

(***************************************************************************)
(* C16: the generator receives the normalized descriptors that pass the    *)
(* filter, each mapped once, and no other; when a sort is configured they  *)
(* are in the order of its comparison function, and otherwise in the order *)
(* of collection; a stage that is not configured changes nothing.          *)
(***************************************************************************)
C16_PipelineOrder ==
  (Built /\ DistinctNames(Mapped)) =>
    /\ Len(Received) = Len(Mapped)
    /\ {Received[i] : i \in 1..Len(Received)}
         = {NamePath(Mapped)[i] : i \in 1..Len(Mapped)}
    /\ opts.sort = "none" => Received = NamePath(Mapped)
    /\ opts.sort # "none" => Ordered(Received, opts.sort)

\* all three stages are configured, the filter drops a descriptor that the
\* map would have made pass, and the sort moves a descriptor
C16_Witness ==
  /\ Built
  /\ DistinctNames(Mapped)
  /\ opts.filter = "isInitial"
  /\ opts.map = "markInitial"
  /\ opts.sort = "byPathDesc"
  /\ Len(Passed) < Len(Normalized)
  /\ Len(Passed) >= 2
  /\ Received # NamePath(Mapped)

\* the map rewrites the path the sort compares and the order of the mapped
\* paths is not the order of the paths before the map
C16_WitnessSortAfterMap ==
  /\ Built
  /\ DistinctNames(Mapped)
  /\ opts.map = "tagPath"
  /\ opts.sort = "byPathDesc"
  /\ Ordered(Received, opts.sort)
  /\ ~Ordered(NamePath(ApplyMap(ApplySort(Passed, opts.sort), opts.map)),
              opts.sort)


(***************************************************************************)
(* The builds of the 'multiple compilation' test under a host that goes on *)
(* with every build: a downstream handler that was given a continuation    *)
(* invokes it, the host writes the assets of a build whose emit step is    *)
(* over, and fires after-emit of a build whose assets are written          *)
(***************************************************************************)
HostGoesOn ==
  /\ \A b \in Builds : WF_vars(Continue(b))
  /\ \A c \in Compilers : WF_vars(WriteAssets(c))
  /\ \A c \in Compilers : WF_vars(AfterEmit(c))

SpecLive == Init /\ [][Next]_vars /\ HostGoesOn

\* b has asked for the lock
Requested(b) == AwaitingLock(b) \/ Acquired(b)

(***************************************************************************)
(* C17: under a host that goes on with every build, every build that has   *)
(* asked for the lock comes to acquire it and to release it, in both API   *)
(* shapes and for every interleaving of the builds.                        *)
(***************************************************************************)
C17_FinalizationLiveness ==
  \A b \in Builds :
    /\ AwaitingLock(b) ~> Acquired(b)
    /\ Requested(b) ~> Released(b)


\* the names of the descriptors the emit handler of compiler c folds
FoldedNames(c) ==
  LET files == PipelineFiles(opts, compilation'[c], moduleAssets[c])
  IN {files[i].name : i \in 1..Len(files)}

(***************************************************************************)
(* C18: with the default generator, a step never takes a key out of a seed *)
(* object; the emit step of a build leaves every entry whose key is not a  *)
(* name of that build as it was, and the manifest of the build is the seed *)
(* object after the fold, so it has every key the seed had before, from    *)
(* earlier builds of the same compiler and from the builds of the          *)
(* compilers that share the seed.                                          *)
(***************************************************************************)
C18_MonotonicAccumulation ==
  [][opts.generate = "none" =>
       /\ \A ref \in DOMAIN seeds : Keys(seeds[ref]) \subseteq Keys(seeds'[ref])
       /\ \A c \in Compilers :
            EmitOf(c) =>
              /\ \A key \in Keys(seeds[SeedRef(c)]) \ FoldedNames(c) :
                   ObjGet(seeds'[SeedRef(c)], key) = ObjGet(seeds[SeedRef(c)], key)
              /\ JsonParse(artifact'[c]) = seeds'[SeedRef(c)]]_vars

\* compiler 1 has built twice, compiler 2 shares its seed and was the last
\* to emit, with a build that has no async chunk: its manifest has the key
\* of the async chunk of a build of compiler 1
C18_Witness ==
  /\ opts.seed = "shared"
  /\ builds[1] = 2
  /\ emitted # <<>>
  /\ Last(emitted)[1] = 2
  /\ compilation[2] = EntryOnly
  /\ fAsync \in Keys(JsonParse(artifact[2]))
  /\ fAsync \in Keys(seeds[0])


====
